---- MODULE Spec2Model ----
(***************************************************************************)
(* Model of ISS/algorithms/control/pid_wpt_tracker.py:                     *)
(*   VehiclePIDController       (trajectory tracker, waypoint cursor)      *)
(*   PIDLongitudinalController  (speed error -> throttle)                  *)
(*   PIDLateralController       (bearing error -> steering)                *)
(*                                                                         *)
(* Numbers.  Python floats are modelled in exact fixed point:              *)
(*   - speeds and coordinates are integers (m/s, m);                       *)
(*   - error samples are kept in 1/1000 units (mm/s, milliradians);        *)
(*   - gains K_P, K_I, K_D, dt, output_min, output_max are kept in tenths  *)
(*     (K_P = 20 is the default 2.0, dt = 1 is the default 0.1);           *)
(*   - controller outputs are kept in 1/100000 units, the scale in which   *)
(*     K_P*e + K_D*de + K_I*ie is an integer for the dt values used.       *)
(* A float is a record [nan, v]: nan = TRUE is IEEE not-a-number, which    *)
(* every arithmetic operation propagates.                                  *)
(***************************************************************************)
EXTENDS Integers, Sequences, FiniteSets, TLC

VARIABLES traj, handed, waypoint_index, look_ahead, lon, lat, call, ret

vars == <<traj, handed, waypoint_index, look_ahead, lon, lat, call, ret>>

(***************************************************************************)
(* Bounds of the model and constants of the program.                       *)
(***************************************************************************)
MaxTrajLen == 3
MaxSteps == 2
MaxPushes == 11
BufferMaxLen == 10

(***************************************************************************)
(* Floats.                                                                 *)
(***************************************************************************)
F(n) == [nan |-> FALSE, v |-> n]
NaN == [nan |-> TRUE, v |-> 0]

Min(a, b) == IF a <= b THEN a ELSE b
Max(a, b) == IF a >= b THEN a ELSE b

\* np.clip(x, a_min, a_max) == minimum(maximum(x, a_min), a_max); nan stays nan
Clip(x, a_min, a_max) ==
    IF x.nan THEN NaN ELSE F(Min(Max(x.v, a_min), a_max))

RECURSIVE SumV(_)
SumV(s) == IF s = <<>> THEN 0 ELSE s[1].v + SumV(Tail(s))

AnyNaN(s) == \E i \in 1..Len(s) : s[i].nan

\* deque(maxlen=10).append(x): the oldest sample is dropped when full
Push_Unbounded(buf, x) == Append(buf, x)

Push(buf, x) ==
    IF Len(buf) >= BufferMaxLen THEN Append(Tail(buf), x) ELSE Append(buf, x)

(***************************************************************************)
(* Inputs.                                                                 *)
(***************************************************************************)
\* waypoints are tuples (x, y, heading_unused, target_speed)
Waypoints == { <<0, 0, 0, 5>>, <<2, 1, 0, 0>> }

RECURSIVE SeqsUpTo(_, _)
SeqsUpTo(S, n) ==
    IF n = 0 THEN { <<>> }
    ELSE LET R == SeqsUpTo(S, n - 1)
         IN  R \cup { Append(s, x) : s \in { r \in R : Len(r) = n - 1 }, x \in S }

Trajectories == SeqsUpTo(Waypoints, MaxTrajLen)

\* heading_angle h stands for h * pi/2 radians
Headings == {0, 1}
Positions == { <<0, 0>>, <<2, 1>>, <<0, 1>> }

\* vehicle_location of the tracker's run_step: at rest heading along +x, or
\* moving at 5 m/s heading along +y
Locations ==
    { [x |-> p[1], y |-> p[2], heading_angle |-> k[1], velocity |-> k[2]] :
        p \in Positions, k \in { <<0, 0>>, <<1, 5>> } }

\* constructor arguments, in tenths
DefaultLateral ==
    [K_P |-> 20, K_I |-> 0, K_D |-> 2, output_max |-> 10, output_min |-> -10, dt |-> 1]
DefaultLongitudinal ==
    [K_P |-> 20, K_I |-> 0, K_D |-> 1, output_max |-> 10, output_min |-> 0, dt |-> 1]

(***************************************************************************)
(* PIDLongitudinalController                                               *)
(***************************************************************************)
LonInit(args) ==
    [K_P |-> args.K_P, K_D |-> args.K_D, K_I |-> args.K_I,
     output_max |-> args.output_max, output_min |-> args.output_min,
     dt |-> args.dt, buf |-> <<>>]

LonReset(c) == [c EXCEPT !.buf = <<>>]

LonChangeParameters_ClearsHistory(c, K_P, K_I, K_D, dt) ==
    [c EXCEPT !.K_P = K_P, !.K_I = K_I, !.K_D = K_D, !.dt = dt, !.buf = <<>>]

LonChangeParameters(c, K_P, K_I, K_D, dt) ==
    [c EXCEPT !.K_P = K_P, !.K_I = K_I, !.K_D = K_D, !.dt = dt]

PidRaw_NoGate(c, buf) ==
    LET n == Len(buf)
        e == buf[n]
    IN  IF AnyNaN(buf) THEN NaN
        ELSE F(10 * c.K_P * e.v
               + (IF n >= 2 THEN (100 * c.K_D * (buf[n].v - buf[n - 1].v)) \div c.dt ELSE 0)
               + c.K_I * SumV(buf) * c.dt)

\* K_P*error + K_D*_de + K_I*_ie in 1/100000 units, for samples in 1/1000
\* units and gains and dt in tenths; buf already holds the new sample
PidRaw(c, buf) ==
    LET n == Len(buf)
        e == buf[n]
    IN  IF n >= 2
        THEN IF AnyNaN(buf) THEN NaN
             ELSE F(10 * c.K_P * e.v
                    + (100 * c.K_D * (buf[n].v - buf[n - 1].v)) \div c.dt
                    + c.K_I * SumV(buf) * c.dt)
        ELSE IF e.nan THEN NaN ELSE F(10 * c.K_P * e.v)

\* the result: the controller after the call, the value returned, and
\* whether the call raised ZeroDivisionError (float division by dt = 0)
LonPidControl(c, current_speed, target_speed) ==
    LET error == F(1000 * (target_speed - current_speed))
        buf == Push(c.buf, error)
        c2 == [c EXCEPT !.buf = buf]
    IN  IF Len(buf) >= 2 /\ c.dt = 0
        THEN [ctl |-> c2, raised |-> TRUE, out |-> NaN]
        ELSE [ctl |-> c2, raised |-> FALSE,
              out |-> Clip(PidRaw(c, buf), 10000 * c.output_min, 10000 * c.output_max)]

(***************************************************************************)
(* PIDLateralController                                                    *)
(***************************************************************************)
LatInit(args) ==
    [K_P |-> args.K_P, K_D |-> args.K_D, K_I |-> args.K_I,
     output_max |-> args.output_max, output_min |-> args.output_min,
     dt |-> args.dt, buf |-> <<>>, lat_error |-> <<>>]

LatReset(c) == [c EXCEPT !.buf = <<>>]

LatChangeParameters(c, K_P, K_I, K_D, dt) ==
    [c EXCEPT !.K_P = K_P, !.K_I = K_I, !.K_D = K_D, !.dt = dt]

\* math.acos(dot / (|w| * |v|)) in milliradians, |v| = 1, from the sign of
\* the cosine and its square dot^2 / w2; defined for the squares
\* 0, 1/5, 1/2, 4/5, 1 that the vectors of the model produce
Acos(dot, w2) ==
    LET a == CASE dot * dot = w2 -> 0
               [] 5 * dot * dot = 4 * w2 -> 464
               [] 2 * dot * dot = w2 -> 785
               [] 5 * dot * dot = w2 -> 1107
               [] dot = 0 -> 1571
    IN  IF dot >= 0 THEN a ELSE 3142 - a

\* _cross[2] < 0 for v_vec = (cos h, sin h, 0), w_vec = (wx, wy, 0):
\* math.cos(0) = 1 and math.sin(0) = 0 exactly, while math.cos(pi/2) is the
\* small positive float 6.1e-17 and math.sin(pi/2) = 1, so that for h = pi/2
\* the cross product 6.1e-17*wy - wx takes the sign of wy when wx = 0
CrossNegative(h, wx, wy) ==
    IF h = 0 THEN wy < 0 ELSE wx > 0 \/ (wx = 0 /\ wy < 0)

\* the signed bearing error _dot of lines 184-191
Bearing(vehicle_location, waypoint) ==
    LET h == vehicle_location[3]
        wx == waypoint[1] - vehicle_location[1]
        wy == waypoint[2] - vehicle_location[2]
        w2 == wx * wx + wy * wy
        dot == IF h = 0 THEN wx ELSE wy
    IN  IF w2 = 0 THEN NaN
        ELSE IF CrossNegative(h, wx, wy) THEN F(0 - Acos(dot, w2))
        ELSE F(Acos(dot, w2))

LatPidControl(c, vehicle_location, waypoint) ==
    LET _dot == Bearing(vehicle_location, waypoint)
        buf == Push(c.buf, _dot)
        c2 == [c EXCEPT !.buf = buf, !.lat_error = Append(c.lat_error, _dot)]
    IN  IF Len(buf) >= 2 /\ c.dt = 0
        THEN [ctl |-> c2, raised |-> TRUE, out |-> NaN]
        ELSE [ctl |-> c2, raised |-> FALSE,
              out |-> Clip(PidRaw(c, buf), 10000 * c.output_min, 10000 * c.output_max)]

(***************************************************************************)
(* VehiclePIDController                                                    *)
(*                                                                         *)
(* self.traj refers to a Python list object: the list made by __init__,    *)
(* or the list the caller passed to set_traj, which the caller still       *)
(* holds.  traj is the content of that object now, handed is the content   *)
(* the caller gave it (empty for the list made by __init__).               *)
(***************************************************************************)
\* (args_lateral, args_longitudinal, look_ahead) given to the constructor: the
\* defaults of lines 14, 27 and 29, and a triple with small gains, integral
\* terms, wide output ranges and a longer look-ahead
Constructions ==
    { <<DefaultLateral, DefaultLongitudinal, 1>>,
      <<[K_P |-> 2, K_I |-> 10, K_D |-> 1, output_max |-> 20, output_min |-> -20, dt |-> 1],
        [K_P |-> 2, K_I |-> 10, K_D |-> 1, output_max |-> 100, output_min |-> -100, dt |-> 2],
        2>> }

\* np.linalg.norm(v_vec) > self._look_ahead, on exact squares
Farther_OrEqual(v_vec, la) ==
    la < 0 \/ v_vec[1] * v_vec[1] + v_vec[2] * v_vec[2] >= la * la
Farther(v_vec, la) ==
    la < 0 \/ v_vec[1] * v_vec[1] + v_vec[2] * v_vec[2] > la * la

RECURSIVE Advance_PastEnd(_, _, _, _)
Advance_PastEnd(T, i, current_location, la) ==
    IF i < Len(T)
    THEN LET traj_point == T[i + 1]
             v_vec == <<current_location[1] - traj_point[1],
                        current_location[2] - traj_point[2]>>
         IN  IF Farther(v_vec, la) THEN i
             ELSE Advance_PastEnd(T, i + 1, current_location, la)
    ELSE i

RECURSIVE Advance_Inverted(_, _, _, _)
Advance_Inverted(T, i, current_location, la) ==
    IF i < Len(T) - 1
    THEN LET traj_point == T[i + 1]
             v_vec == <<current_location[1] - traj_point[1],
                        current_location[2] - traj_point[2]>>
         IN  IF Farther(v_vec, la) THEN Advance_Inverted(T, i + 1, current_location, la)
             ELSE i
    ELSE i

\* the while loop of lines 62-67; i is the 0-based waypoint_index, and
\* T[i + 1] is Python's self.traj[i]
RECURSIVE Advance(_, _, _, _)
Advance(T, i, current_location, la) ==
    IF i < Len(T) - 1
    THEN LET traj_point == T[i + 1]
             v_vec == <<current_location[1] - traj_point[1],
                        current_location[2] - traj_point[2]>>
         IN  IF Farther(v_vec, la) THEN i
             ELSE Advance(T, i + 1, current_location, la)
    ELSE i

\* line 56: fewer than two waypoints remain
Finished_Strict(i, T) == i > Len(T) - 1
Finished(i, T) == i >= Len(T) - 1

\* line 72: self.waypoint_index += 1 after the command is computed
NextIndex_Two(i) == i + 2
NextIndex(i) == i + 1

TrackerInit(args_lateral, args_longitudinal, la) ==
    /\ look_ahead = la
    /\ lon = LonInit(args_longitudinal)
    /\ lat = LatInit(args_lateral)
    /\ traj = <<>>
    /\ handed = <<>>
    /\ waypoint_index = 0

Init ==
    /\ \E c \in Constructions : TrackerInit(c[1], c[2], c[3])
    /\ call = [op |-> "init"]
    /\ ret = [kind |-> "none"]

SetTraj_KeepsCursor(t) ==
    /\ traj' = t
    /\ handed' = t
    /\ call' = [op |-> "set_traj", fresh |-> TRUE]
    /\ ret' = [kind |-> "none"]
    /\ UNCHANGED <<waypoint_index, look_ahead, lon, lat>>

SetTraj_ResetsControllers(t) ==
    /\ traj' = t
    /\ handed' = t
    /\ waypoint_index' = 0
    /\ lon' = LonReset(lon)
    /\ lat' = LatReset(lat)
    /\ call' = [op |-> "set_traj", fresh |-> TRUE]
    /\ ret' = [kind |-> "none"]
    /\ UNCHANGED <<look_ahead>>

\* set_traj(t) with a list t the caller has just built
SetTraj(t) ==
    /\ traj' = t
    /\ handed' = t
    /\ waypoint_index' = 0
    /\ call' = [op |-> "set_traj", fresh |-> TRUE]
    /\ ret' = [kind |-> "none"]
    /\ UNCHANGED <<look_ahead, lon, lat>>

\* set_traj(t) with the list object self.traj already refers to
SetTrajSame ==
    /\ traj' = traj
    /\ waypoint_index' = 0
    /\ call' = [op |-> "set_traj", fresh |-> FALSE]
    /\ ret' = [kind |-> "none"]
    /\ UNCHANGED <<handed, look_ahead, lon, lat>>

\* reset(): self.traj.clear() empties the list object in place
Reset_SkipsLateral ==
    /\ traj' = <<>>
    /\ waypoint_index' = 0
    /\ lon' = LonReset(lon)
    /\ call' = [op |-> "reset"]
    /\ ret' = [kind |-> "none"]
    /\ UNCHANGED <<handed, look_ahead, lat>>

Reset ==
    /\ traj' = <<>>
    /\ waypoint_index' = 0
    /\ lon' = LonReset(lon)
    /\ lat' = LatReset(lat)
    /\ call' = [op |-> "reset"]
    /\ ret' = [kind |-> "none"]
    /\ UNCHANGED <<handed, look_ahead>>

Step_FlagSkipsController(vehicle_location, thro_as_speed, max_log) ==
    IF Finished(waypoint_index, traj)
    THEN /\ ret' = [kind |-> "pair", throttle |-> F(0), steering |-> F(0)]
         /\ call' = [op |-> "run_step", entry |-> waypoint_index, tracking |-> FALSE]
         /\ UNCHANGED <<traj, handed, waypoint_index, look_ahead, lon, lat>>
    ELSE LET current_location == <<vehicle_location.x, vehicle_location.y,
                                   vehicle_location.heading_angle>>
             current_speed == vehicle_location.velocity
             sel == Advance(traj, waypoint_index, current_location, look_ahead)
             traj_point == traj[sel + 1]
             target_speed == traj_point[4]
             g == LonPidControl(lon, current_speed, target_speed)
             s == LatPidControl(lat, current_location, traj_point)
         IN  /\ Len(lat.lat_error) < max_log
             /\ Len(lon.buf) < max_log
             /\ call' = [op |-> "run_step", entry |-> waypoint_index, tracking |-> TRUE,
                         loc |-> vehicle_location, thro_as_speed |-> thro_as_speed,
                         sel |-> sel]
             /\ UNCHANGED <<traj, handed, look_ahead>>
             /\ IF sel >= Len(traj)
                THEN /\ waypoint_index' = sel
                     /\ ret' = [kind |-> "IndexError"]
                     /\ UNCHANGED <<lon, lat>>
                ELSE /\ lon' = IF thro_as_speed THEN lon ELSE g.ctl
                     /\ IF ~thro_as_speed /\ g.raised
                        THEN /\ lat' = lat
                             /\ waypoint_index' = sel
                             /\ ret' = [kind |-> "ZeroDivisionError"]
                        ELSE /\ lat' = s.ctl
                             /\ IF s.raised
                                THEN /\ waypoint_index' = sel
                                     /\ ret' = [kind |-> "ZeroDivisionError"]
                                ELSE /\ waypoint_index' = NextIndex(sel)
                                     /\ ret' = [kind |-> "pair",
                                                throttle |-> IF thro_as_speed
                                                             THEN F(100000 * target_speed)
                                                             ELSE g.out,
                                                steering |-> s.out]

\* run_step(vehicle_location, thro_as_speed); a Tracking step is taken only
\* while the diagnostic log and the longitudinal history hold fewer than
\* max_log entries.  Line 68 raises
\* IndexError when the cursor left by the loop is not an index of the list,
\* lines 126 and 196 raise ZeroDivisionError when dt = 0
Step(vehicle_location, thro_as_speed, max_log) ==
    IF Finished(waypoint_index, traj)
    THEN /\ ret' = [kind |-> "pair", throttle |-> F(0), steering |-> F(0)]
         /\ call' = [op |-> "run_step", entry |-> waypoint_index, tracking |-> FALSE]
         /\ UNCHANGED <<traj, handed, waypoint_index, look_ahead, lon, lat>>
    ELSE LET current_location == <<vehicle_location.x, vehicle_location.y,
                                   vehicle_location.heading_angle>>
             current_speed == vehicle_location.velocity
             sel == Advance(traj, waypoint_index, current_location, look_ahead)
             traj_point == traj[sel + 1]
             target_speed == traj_point[4]
             g == LonPidControl(lon, current_speed, target_speed)
             s == LatPidControl(lat, current_location, traj_point)
         IN  /\ Len(lat.lat_error) < max_log
             /\ Len(lon.buf) < max_log
             /\ call' = [op |-> "run_step", entry |-> waypoint_index, tracking |-> TRUE,
                         loc |-> vehicle_location, thro_as_speed |-> thro_as_speed,
                         sel |-> sel]
             /\ UNCHANGED <<traj, handed, look_ahead>>
             /\ IF sel >= Len(traj)
                THEN /\ waypoint_index' = sel
                     /\ ret' = [kind |-> "IndexError"]
                     /\ UNCHANGED <<lon, lat>>
                ELSE /\ lon' = g.ctl
                     /\ IF g.raised
                        THEN /\ lat' = lat
                             /\ waypoint_index' = sel
                             /\ ret' = [kind |-> "ZeroDivisionError"]
                        ELSE /\ lat' = s.ctl
                             /\ IF s.raised
                                THEN /\ waypoint_index' = sel
                                     /\ ret' = [kind |-> "ZeroDivisionError"]
                                ELSE /\ waypoint_index' = NextIndex(sel)
                                     /\ ret' = [kind |-> "pair",
                                                throttle |-> IF thro_as_speed
                                                             THEN F(100000 * target_speed)
                                                             ELSE g.out,
                                                steering |-> s.out]

RunStep(vehicle_location, thro_as_speed) ==
    Step(vehicle_location, thro_as_speed, MaxSteps)

Next ==
    \/ \E t \in Trajectories : SetTraj(t)
    \/ SetTrajSame
    \/ Reset
    \/ \E loc \in Locations, f \in BOOLEAN : RunStep(loc, f)

Spec == Init /\ [][Next]_vars

(***************************************************************************)
(* The tracker constructed with a zero time step in one of its two         *)
(* controllers: __init__ (lines 89-100, 149-160) stores dt as given, and   *)
(* the tracker is then used as in Spec.                                    *)
(***************************************************************************)
ZeroDtConstructions ==
    { <<DefaultLateral, [DefaultLongitudinal EXCEPT !.dt = 0], 1>>,
      <<[DefaultLateral EXCEPT !.dt = 0], DefaultLongitudinal, 1>> }

InitZeroDt ==
    /\ \E c \in ZeroDtConstructions : TrackerInit(c[1], c[2], c[3])
    /\ call = [op |-> "init"]
    /\ ret = [kind |-> "none"]

SpecZeroDt == InitZeroDt /\ [][Next]_vars

(***************************************************************************)
(* PIDLateralController used on its own: constructed with arguments of the *)
(* caller's choice, then stepped, reset and re-parameterised directly.     *)
(* The tracker's variables keep their values after construction.           *)
(***************************************************************************)
\* the defaults of the signature at line 145, the tracker's defaults, and
\* arguments with dt = 0, a negative dt and output_min > output_max
LatArgs ==
    { [K_P |-> 2, K_I |-> 0, K_D |-> 0, output_max |-> 10, output_min |-> -10, dt |-> 1],
      DefaultLateral,
      [DefaultLateral EXCEPT !.dt = 0],
      [DefaultLateral EXCEPT !.K_I = 10, !.dt = -1],
      [DefaultLateral EXCEPT !.output_max = -10, !.output_min = 10] }

\* (K_P, K_I, K_D, dt) given to change_parameters
LatChanges == { <<20, 0, 2, 1>>, <<2, 10, 0, 2>>, <<20, 0, 2, 0>> }

\* (x, y, heading) and the waypoints given to PIDLateralController.run_step
LatLocations == { <<p[1], p[2], h>> : p \in Positions, h \in Headings }
LatTargets == Waypoints \cup { <<0, 1, 0, 5>> }

InitLat ==
    /\ \E a \in LatArgs :
          /\ lat = LatInit(a)
          /\ call = [op |-> "init", args |-> a]
    /\ ret = [kind |-> "none"]
    /\ lon = LonInit(DefaultLongitudinal)
    /\ look_ahead = 1
    /\ traj = <<>>
    /\ handed = <<>>
    /\ waypoint_index = 0

LatRunStep(vehicle_location, waypoint) ==
    LET s == LatPidControl(lat, vehicle_location, waypoint)
    IN  /\ Len(lat.lat_error) < MaxSteps
        /\ lat' = s.ctl
        /\ call' = [op |-> "run_step", loc |-> vehicle_location, waypoint |-> waypoint]
        /\ ret' = IF s.raised THEN [kind |-> "ZeroDivisionError"]
                  ELSE [kind |-> "value", value |-> s.out]
        /\ UNCHANGED <<traj, handed, waypoint_index, look_ahead, lon>>

LatResetCall ==
    /\ lat' = LatReset(lat)
    /\ call' = [op |-> "reset"]
    /\ ret' = [kind |-> "none"]
    /\ UNCHANGED <<traj, handed, waypoint_index, look_ahead, lon>>

LatChangeParametersCall(K_P, K_I, K_D, dt) ==
    /\ lat' = LatChangeParameters(lat, K_P, K_I, K_D, dt)
    /\ call' = [op |-> "change_parameters", K_P |-> K_P, K_I |-> K_I, K_D |-> K_D, dt |-> dt]
    /\ ret' = [kind |-> "none"]
    /\ UNCHANGED <<traj, handed, waypoint_index, look_ahead, lon>>

NextLat ==
    \/ \E loc \in LatLocations, w \in LatTargets : LatRunStep(loc, w)
    \/ LatResetCall
    \/ \E g \in LatChanges : LatChangeParametersCall(g[1], g[2], g[3], g[4])

SpecLat == InitLat /\ [][NextLat]_vars

(***************************************************************************)
(* One controller driven directly over a run long enough to fill its       *)
(* history of 10 samples: the caller constructs either the longitudinal or *)
(* the lateral controller and then calls its run_step, reset and           *)
(* change_parameters.  call.ctl names the controller that is driven and    *)
(* call.hist lists the error samples of the steps since its construction   *)
(* or last reset; the other controller and the tracker's variables keep    *)
(* their initial values.                                                   *)
(***************************************************************************)
\* arguments of PIDLongitudinalController: proportional gain 1.0 with an
\* output range wide enough never to clamp, and small gains with an
\* integral and a derivative term
CtlLonArgs ==
    { [K_P |-> 10, K_I |-> 0, K_D |-> 0, output_max |-> 1000, output_min |-> -1000, dt |-> 1],
      [K_P |-> 2, K_I |-> 10, K_D |-> 1, output_max |-> 100, output_min |-> -100, dt |-> 2] }

\* (K_P, K_I, K_D, dt) given to the longitudinal change_parameters
CtlLonChanges == { <<5, 10, 1, -1>>, <<2, 10, 1, 0>> }

\* (current_speed, target_speed) given to the longitudinal run_step
CtlSpeeds == { <<0, 5>>, <<5, 0>> }

\* (K_P, K_I, K_D, dt) given to the lateral change_parameters
CtlLatChanges == { <<2, 10, 0, 2>> }

\* the waypoints given to the lateral run_step, for a vehicle at the origin
\* with heading 0
CtlLatTargets == { <<0, 1, 0, 5>>, <<2, 1, 0, 0>> }

InitCtl ==
    /\ \/ \E a \in CtlLonArgs :
              /\ lon = LonInit(a)
              /\ lat = LatInit(DefaultLateral)
              /\ call = [op |-> "init", ctl |-> "lon", hist |-> <<>>]
       \/ /\ lon = LonInit(DefaultLongitudinal)
          /\ lat = LatInit(DefaultLateral)
          /\ call = [op |-> "init", ctl |-> "lat", hist |-> <<>>]
    /\ ret = [kind |-> "none"]
    /\ look_ahead = 1
    /\ traj = <<>>
    /\ handed = <<>>
    /\ waypoint_index = 0

\* PIDLongitudinalController.run_step(current_speed, target_speed)
CtlLonRunStep(current_speed, target_speed) ==
    LET g == LonPidControl(lon, current_speed, target_speed)
    IN  /\ call.ctl = "lon"
        /\ Len(call.hist) < MaxPushes
        /\ lon' = g.ctl
        /\ call' = [op |-> "run_step", ctl |-> "lon",
                    hist |-> Append(call.hist, F(1000 * (target_speed - current_speed)))]
        /\ ret' = IF g.raised THEN [kind |-> "ZeroDivisionError"]
                  ELSE [kind |-> "value", value |-> g.out]
        /\ UNCHANGED <<traj, handed, waypoint_index, look_ahead, lat>>

CtlLonReset ==
    /\ call.ctl = "lon"
    /\ lon' = LonReset(lon)
    /\ call' = [op |-> "reset", ctl |-> "lon", hist |-> <<>>]
    /\ ret' = [kind |-> "none"]
    /\ UNCHANGED <<traj, handed, waypoint_index, look_ahead, lat>>

CtlLonChangeParameters(K_P, K_I, K_D, dt) ==
    /\ call.ctl = "lon"
    /\ lon' = LonChangeParameters(lon, K_P, K_I, K_D, dt)
    /\ call' = [op |-> "change_parameters", ctl |-> "lon", hist |-> call.hist,
                K_P |-> K_P, K_I |-> K_I, K_D |-> K_D, dt |-> dt]
    /\ ret' = [kind |-> "none"]
    /\ UNCHANGED <<traj, handed, waypoint_index, look_ahead, lat>>

\* PIDLateralController.run_step(vehicle_location, waypoint)
CtlLatRunStep(vehicle_location, waypoint) ==
    LET s == LatPidControl(lat, vehicle_location, waypoint)
    IN  /\ call.ctl = "lat"
        /\ Len(lat.lat_error) < MaxPushes
        /\ lat' = s.ctl
        /\ call' = [op |-> "run_step", ctl |-> "lat",
                    hist |-> Append(call.hist, Bearing(vehicle_location, waypoint))]
        /\ ret' = IF s.raised THEN [kind |-> "ZeroDivisionError"]
                  ELSE [kind |-> "value", value |-> s.out]
        /\ UNCHANGED <<traj, handed, waypoint_index, look_ahead, lon>>

CtlLatReset ==
    /\ call.ctl = "lat"
    /\ lat' = LatReset(lat)
    /\ call' = [op |-> "reset", ctl |-> "lat", hist |-> <<>>]
    /\ ret' = [kind |-> "none"]
    /\ UNCHANGED <<traj, handed, waypoint_index, look_ahead, lon>>

CtlLatChangeParameters(K_P, K_I, K_D, dt) ==
    /\ call.ctl = "lat"
    /\ lat' = LatChangeParameters(lat, K_P, K_I, K_D, dt)
    /\ call' = [op |-> "change_parameters", ctl |-> "lat", hist |-> call.hist,
                K_P |-> K_P, K_I |-> K_I, K_D |-> K_D, dt |-> dt]
    /\ ret' = [kind |-> "none"]
    /\ UNCHANGED <<traj, handed, waypoint_index, look_ahead, lon>>

NextCtl ==
    \/ \E v \in CtlSpeeds : CtlLonRunStep(v[1], v[2])
    \/ CtlLonReset
    \/ \E g \in CtlLonChanges : CtlLonChangeParameters(g[1], g[2], g[3], g[4])
    \/ \E w \in CtlLatTargets : CtlLatRunStep(<<0, 0, 0>>, w)
    \/ CtlLatReset
    \/ \E g \in CtlLatChanges : CtlLatChangeParameters(g[1], g[2], g[3], g[4])

SpecCtl == InitCtl /\ [][NextCtl]_vars

(***************************************************************************)
(* Properties of the tracker, checked under Spec.  call describes the      *)
(* last operation: for run_step the cursor on entry, and for a Tracking    *)
(* step the pose, the flag and the index of the waypoint handed to the     *)
(* controllers; ret is what the operation returned or raised.              *)
(***************************************************************************)
IsStep == call.op = "run_step"
IsTracking == call.op = "run_step" /\ call.tracking

\* distance(pose, T[i]) <= look_ahead for the 0-based index i
Within(loc, T, i) ==
    LET dx == loc.x - T[i + 1][1]
        dy == loc.y - T[i + 1][2]
    IN  dx * dx + dy * dy <= look_ahead * look_ahead

AtWaypoint(loc, T, i) == loc.x = T[i + 1][1] /\ loc.y = T[i + 1][2]

InRange(x, c) ==
    /\ ~x.nan
    /\ 10000 * c.output_min <= x.v
    /\ x.v <= 10000 * c.output_max

\* the end-to-end scenario of the specification
E2ETraj == << <<0, 0, 0, 5>>, <<10, 0, 0, 5>>, <<20, 0, 0, 0>> >>

\* C1 as stated: the cursor is never negative and, for a non-empty
\* trajectory, stays below len(traj): it never moves past the last index.
C1_CursorBelowLen ==
    /\ 0 <= waypoint_index
    /\ Len(traj) > 0 => waypoint_index < Len(traj)

\* C1 as amended: 0 <= waypoint_index <= len(traj) in every reachable state
\* (the increment after the command can leave the cursor one past the last
\* index), and a run_step entered with the cursor at len(traj)-1 or beyond
\* leaves the cursor where it was.
C1_CursorAtMostLen ==
    /\ 0 <= waypoint_index
    /\ waypoint_index <= Len(traj)
    /\ (IsStep /\ call.entry >= Len(traj) - 1) => waypoint_index = call.entry

C1_Witness ==
    /\ IsTracking
    /\ Len(traj) >= 2
    /\ waypoint_index = Len(traj)

\* C2 as stated: a Tracking step passes over the waypoints farther than
\* look_ahead and stops at the first one within look_ahead (or at the last
\* index); when the waypoint at the cursor is within look_ahead it is the
\* one tracked, and the cursor ends at cursor + 1.
C2_AdvanceWhileFarther ==
    (IsTracking /\ ret.kind = "pair") =>
        /\ \A i \in call.entry..(call.sel - 1) : ~Within(call.loc, traj, i)
        /\ call.sel = Len(traj) - 1 \/ Within(call.loc, traj, call.sel)
        /\ Within(call.loc, traj, call.entry) =>
              call.sel = call.entry /\ waypoint_index = call.entry + 1

\* C2 as amended: a Tracking step passes over the waypoints within
\* look_ahead and stops at the first one farther than look_ahead (or at the
\* last index if there is none); when the waypoint at the cursor is within
\* look_ahead the step skips it (in the end-to-end scenario it tracks
\* waypoint 1, target speed 5, and leaves the cursor at 2), and when it is
\* farther the step tracks it and leaves the cursor at cursor + 1.
C2_AdvanceWhileWithin ==
    /\ (IsTracking /\ ret.kind = "pair") =>
          /\ call.sel \in call.entry..(Len(traj) - 1)
          /\ \A i \in call.entry..(call.sel - 1) : Within(call.loc, traj, i)
          /\ call.sel = Len(traj) - 1 \/ ~Within(call.loc, traj, call.sel)
          /\ waypoint_index = call.sel + 1
          /\ Within(call.loc, traj, call.entry) => call.sel > call.entry
          /\ ~Within(call.loc, traj, call.entry) =>
                call.sel = call.entry /\ waypoint_index = call.entry + 1
    /\ Advance(E2ETraj, 0, <<0, 0, 0>>, 1) = 1
    /\ E2ETraj[2][4] = 5

C2_Witness ==
    /\ IsTracking
    /\ Within(call.loc, traj, call.entry)
    /\ call.sel = call.entry + 1
    /\ call.sel < Len(traj) - 1
    /\ waypoint_index = call.sel + 1

\* C3: a run_step entered with waypoint_index >= len(traj) - 1 returns
\* (0.0, 0.0), raises nothing and changes nothing, and from such a state the
\* tracker gets back to waypoint_index < len(traj) - 1 only by a set_traj
\* with at least two waypoints.
C3_FinishedIdle ==
    [][ waypoint_index >= Len(traj) - 1 =>
          /\ call'.op = "run_step" =>
                /\ ret' = [kind |-> "pair", throttle |-> F(0), steering |-> F(0)]
                /\ UNCHANGED <<traj, handed, waypoint_index, look_ahead, lon, lat>>
          /\ waypoint_index' < Len(traj') - 1 =>
                call'.op = "set_traj" /\ Len(traj') >= 2 ]_vars

C3_Witness ==
    /\ IsStep
    /\ Len(traj) >= 2
    /\ call.entry = Len(traj) - 1
    /\ waypoint_index = call.entry
    /\ Len(lon.buf) >= 1
    /\ ret = [kind |-> "pair", throttle |-> F(0), steering |-> F(0)]

\* C4: no run_step decreases waypoint_index, and set_traj and reset each
\* set it to 0.
C4_CursorMonotone ==
    [][ /\ call'.op = "run_step" => waypoint_index' >= waypoint_index
        /\ call'.op \in {"set_traj", "reset"} => waypoint_index' = 0 ]_vars

C4_Witness ==
    /\ IsTracking
    /\ call.entry >= 1
    /\ waypoint_index >= call.entry + 2

\* C5: the clamping law.  With output_min <= output_max every value the
\* longitudinal step returns lies in [output_min, output_max], and so does
\* every value the lateral step returns when the target position differs
\* from the vehicle position: the throttle (flag off) and the steering of a
\* Tracking step lie in the configured ranges.
C5_ClampingLaw ==
    (IsTracking /\ ret.kind = "pair"
        /\ lon.output_min <= lon.output_max
        /\ lat.output_min <= lat.output_max) =>
        /\ ~call.thro_as_speed => InRange(ret.throttle, lon)
        /\ ~AtWaypoint(call.loc, traj, call.sel) => InRange(ret.steering, lat)

\* C6: degenerate geometry.  When the selected waypoint coincides with the
\* vehicle position the steering returned is the neutral value 0, and no
\* undefined value (not-a-number) is ever stored in the lateral error
\* history.
C6_DegenerateNeutral ==
    /\ (IsTracking /\ ret.kind = "pair" /\ AtWaypoint(call.loc, traj, call.sel)) =>
          ret.steering = F(0)
    /\ \A i \in 1..Len(lat.buf) : ~lat.buf[i].nan

\* C7: no tracker operation changes the content of the list the caller
\* handed to set_traj: the list self.traj refers to still holds what the
\* caller put in it.
C7_CallerListUntouched == traj = handed

\* C8: after reset() the lateral controller's diagnostic log lat_error is
\* empty.
C8_ResetClearsLog == call.op = "reset" => lat.lat_error = <<>>

\* C9: a constructor call with output_min > output_max or dt <= 0 and a
\* change_parameters call with dt <= 0 signal an error at that call, and no
\* step is performed with dt <= 0 or output_min > output_max.
C9_InvalidConfigRejected ==
    /\ (call.op = "init" /\ (call.args.output_min > call.args.output_max
                               \/ call.args.dt <= 0)) =>
          ret.kind = "InvalidConfiguration"
    /\ (call.op = "change_parameters" /\ call.dt <= 0) =>
          ret.kind = "InvalidConfiguration"
    /\ call.op = "run_step" => lat.dt > 0 /\ lat.output_min <= lat.output_max

\* C10: set_traj(traj) makes traj the active trajectory, sets the cursor to
\* 0 and leaves both controllers (error histories, diagnostic log, gains,
\* output ranges, dt) and the look-ahead as they were; the first Tracking
\* step after it appends its samples to the histories of the previous
\* session, and its throttle is the clamped K_P*e + K_D*(e - p)/dt +
\* K_I*dt*(sum of the previous samples + e), p being the last sample of the
\* previous session.
C10_SetTrajFrame ==
    [][ /\ call'.op = "set_traj" =>
              /\ waypoint_index' = 0
              /\ lon' = lon /\ lat' = lat /\ look_ahead' = look_ahead
              /\ call'.fresh => traj' = handed'
              /\ ~call'.fresh => traj' = traj /\ handed' = handed
        /\ (call.op = "set_traj" /\ call'.op = "run_step" /\ call'.tracking
              /\ ret'.kind = "pair" /\ Len(lon.buf) \in 1..(BufferMaxLen - 1)) =>
              LET e == 1000 * (traj[call'.sel + 1][4] - call'.loc.velocity)
                  p == lon.buf[Len(lon.buf)].v
                  raw == 10 * lon.K_P * e + (100 * lon.K_D * (e - p)) \div lon.dt
                         + lon.K_I * (SumV(lon.buf) + e) * lon.dt
              IN  /\ lon'.buf = Append(lon.buf, F(e))
                  /\ ~call'.thro_as_speed =>
                        ret'.throttle = F(Min(Max(raw, 10000 * lon.output_min),
                                              10000 * lon.output_max))
                  /\ Len(lat'.buf) = Len(lat.buf) + 1
                  /\ SubSeq(lat'.buf, 1, Len(lat.buf)) = lat.buf ]_vars

C10_Witness ==
    /\ IsTracking
    /\ call.entry = 0
    /\ ~call.thro_as_speed
    /\ Len(lon.buf) = 2
    /\ lon.buf[1] # lon.buf[2]
    /\ Len(lat.buf) = 2
    /\ ret.kind = "pair"
    /\ ret.throttle.v > 10000 * lon.output_min
    /\ ret.throttle.v < 10000 * lon.output_max

\* C12: a Tracking step with thro_as_speed set runs both controllers exactly
\* as a step without the flag does (same cursor, same two histories, same
\* diagnostic log, same steering); only the returned throttle differs, and it
\* is the target speed of the selected waypoint, not clamped to the
\* longitudinal output range
C12_FlagOnlyOverridesThrottle ==
    [][ (call'.op = "run_step" /\ call'.tracking /\ call'.thro_as_speed) =>
            LET cur == <<call'.loc.x, call'.loc.y, call'.loc.heading_angle>>
                tp == traj[call'.sel + 1]
                g == LonPidControl(lon, call'.loc.velocity, tp[4])
                s == LatPidControl(lat, cur, tp)
            IN  /\ traj' = traj
                /\ lon' = g.ctl
                /\ lat' = IF g.raised THEN lat ELSE s.ctl
                /\ ret'.kind = "pair" <=> (~g.raised /\ ~s.raised)
                /\ ret'.kind = "pair" =>
                      /\ ret'.throttle = F(100000 * tp[4])
                      /\ ret'.steering = s.out
                      /\ waypoint_index' = call'.sel + 1 ]_vars

C12_Witness ==
    /\ IsTracking
    /\ call.thro_as_speed
    /\ ret.kind = "pair"
    /\ ret.throttle.v > 10000 * lon.output_max
    /\ Len(lon.buf) = 2
    /\ Len(lat.lat_error) = 2

\* C15: after the tracker's reset() the cursor is 0, the trajectory is empty
\* and the error histories of both controllers are empty; a second reset()
\* changes nothing (no reset step out of a just-reset state alters the state)
C15_ResetClearsAndIdempotent ==
    call.op = "reset" =>
        /\ waypoint_index = 0
        /\ traj = <<>>
        /\ lon.buf = <<>>
        /\ lat.buf = <<>>
        /\ ~ENABLED <<Reset>>_vars

C15_Witness ==
    /\ call.op = "reset"
    /\ handed # <<>>
    /\ Len(lat.lat_error) >= 1

\* C16: the waypoint a Tracking step selects is the first index at or after
\* the entry cursor whose waypoint is farther than look_ahead from the
\* vehicle, or the last index when no such index exists before it; that
\* waypoint is the one both controllers are run on; and (look_ahead >= 0) a
\* selected waypoint that is not the last one never coincides with the
\* vehicle position, so its bearing is defined
C16_SelectsFirstFarther ==
    IsTracking =>
        LET last == Len(traj) - 1
            Stops(i) == i = last \/ ~Within(call.loc, traj, i)
        IN  /\ look_ahead >= 0
            /\ call.sel \in call.entry..last
            /\ Stops(call.sel)
            /\ \A i \in call.entry..last : Stops(i) => call.sel <= i
            /\ call.sel < last => ~AtWaypoint(call.loc, traj, call.sel)
            /\ ret.kind = "pair" =>
                  /\ call.sel < last => ~lat.lat_error[Len(lat.lat_error)].nan
                  /\ lon.buf[Len(lon.buf)] =
                        F(1000 * (traj[call.sel + 1][4] - call.loc.velocity))
                  /\ lat.buf[Len(lat.buf)] =
                        Bearing(<<call.loc.x, call.loc.y, call.loc.heading_angle>>,
                                traj[call.sel + 1])

C16_Witness ==
    /\ IsTracking
    /\ ret.kind = "pair"
    /\ AtWaypoint(call.loc, traj, call.entry)
    /\ call.sel > call.entry
    /\ call.sel < Len(traj) - 1
    /\ ~lat.lat_error[Len(lat.lat_error)].nan

\* C19: run_step never indexes the trajectory out of bounds: a Finished step
\* reads no waypoint, and the indices a Tracking step reads (entry cursor up
\* to the selected index) lie in 0 .. len(traj) - 1, so no step raises
\* IndexError, although the cursor stored by the step may be len(traj)
C19_ReadsInBounds ==
    IsStep =>
        /\ ret.kind # "IndexError"
        /\ call.tracking =>
              /\ 0 <= call.entry
              /\ call.entry <= call.sel
              /\ call.sel <= Len(traj) - 1
              /\ waypoint_index <= call.sel + 1

C19_Witness ==
    /\ IsTracking
    /\ ret.kind = "pair"
    /\ call.entry = 1
    /\ call.sel = Len(traj) - 1
    /\ call.sel > call.entry
    /\ waypoint_index > Len(traj) - 1

\* C17: every Tracking step leaves the cursor at least one above the cursor
\* it was entered with (so no index is targeted twice and a trajectory of n
\* waypoints is Finished after at most n - 1 steps)
C17_TrackingAdvancesCursor ==
    IsTracking => waypoint_index >= call.entry + 1

\* C20: the longitudinal and the lateral error histories always have the
\* same length, at most 10, and a Tracking step has pushed one sample into
\* each (neither is empty after it)
C20_Lockstep ==
    /\ Len(lon.buf) = Len(lat.buf)
    /\ Len(lon.buf) <= BufferMaxLen
    /\ IsTracking => Len(lon.buf) >= 1 /\ Len(lat.buf) >= 1

(***************************************************************************)
(* Properties of a controller driven directly, checked under SpecCtl.      *)
(***************************************************************************)
\* the controller the caller drives
Driven == IF call.ctl = "lon" THEN lon ELSE lat

\* C11: change_parameters(K_P, K_I, K_D, dt) on either controller stores the
\* four values given and leaves the error history, output_min, output_max
\* and (lateral) the diagnostic log as they were; reset() of a controller
\* empties its error history and leaves K_P, K_I, K_D, dt, output_min and
\* output_max as they were
C11_ParameterAndResetFrames ==
    [][ /\ call'.op = "change_parameters" =>
              /\ Driven'.K_P = call'.K_P /\ Driven'.K_I = call'.K_I
              /\ Driven'.K_D = call'.K_D /\ Driven'.dt = call'.dt
              /\ Driven'.buf = Driven.buf
              /\ Driven'.output_min = Driven.output_min
              /\ Driven'.output_max = Driven.output_max
              /\ call'.ctl = "lat" => lat'.lat_error = lat.lat_error
        /\ call'.op = "reset" =>
              /\ Driven'.buf = <<>>
              /\ Driven'.K_P = Driven.K_P /\ Driven'.K_I = Driven.K_I
              /\ Driven'.K_D = Driven.K_D /\ Driven'.dt = Driven.dt
              /\ Driven'.output_min = Driven.output_min
              /\ Driven'.output_max = Driven.output_max ]_vars

C11_Witness ==
    /\ call.op = "change_parameters"
    /\ call.ctl = "lon"
    /\ call.K_P = 5
    /\ lon.K_P = 5
    /\ Len(lon.buf) = BufferMaxLen
    /\ lon.output_max = 1000

\* C13: the error history of each controller never holds more than 10
\* samples, and after n steps since construction or the last reset it is
\* exactly the last min(n, 10) samples of those steps, oldest first
C13_HistoryIsLastTen ==
    /\ Len(lon.buf) <= 10
    /\ Len(lat.buf) <= 10
    /\ LET n == Len(call.hist)
           k == IF n < 10 THEN n ELSE 10
       IN  Driven.buf = SubSeq(call.hist, n - k + 1, n)

C13_Witness ==
    /\ call.ctl = "lat"
    /\ Len(call.hist) = 11
    /\ call.hist[1] # call.hist[2]
    /\ call.hist[10] # call.hist[11]
    /\ Len(lat.buf) = 10

\* C14: a longitudinal step returns clamp(K_P*e + K_D*de + K_I*ie,
\* output_min, output_max) with e = target - current; de = ie = 0 on the
\* first step after construction or reset, and from the second step on
\* de = (e - previous e)/dt and ie = dt * (sum of the last min(n, 10)
\* samples, e included); with K_P = 1, K_I = K_D = 0 and a range that never
\* clamps the result is exactly target - current.  (de is defined for
\* dt # 0 only; values in 1/100000, samples in 1/1000, gains and dt in
\* tenths.)
C14_LongitudinalLaw ==
    (call.op = "run_step" /\ call.ctl = "lon"
        /\ (Len(call.hist) = 1 \/ lon.dt # 0)) =>
        LET n == Len(call.hist)
            e == call.hist[n].v
            k == IF n < 10 THEN n ELSE 10
            window == SubSeq(call.hist, n - k + 1, n)
            de == IF n = 1 THEN 0
                  ELSE (100 * lon.K_D * (e - call.hist[n - 1].v)) \div lon.dt
            ie == IF n = 1 THEN 0 ELSE lon.K_I * SumV(window) * lon.dt
            raw == 10 * lon.K_P * e + de + ie
            lo == 10000 * lon.output_min
            hi == 10000 * lon.output_max
        IN  /\ ret.kind = "value"
            /\ ~ret.value.nan
            /\ ret.value.v = IF raw < lo THEN lo ELSE IF raw > hi THEN hi ELSE raw
            /\ (lon.K_P = 10 /\ lon.K_I = 0 /\ lon.K_D = 0 /\ lon.output_max = 1000) =>
                  ret.value.v = 100 * e

C14_Witness ==
    /\ call.op = "run_step"
    /\ call.ctl = "lon"
    /\ Len(call.hist) = 11
    /\ call.hist[1] # call.hist[2]
    /\ call.hist[10] # call.hist[11]
    /\ lon.K_I = 10
    /\ lon.dt = 2
    /\ ret.kind = "value"
    /\ ret.value.v > 10000 * lon.output_min
    /\ ret.value.v < 10000 * lon.output_max

(***************************************************************************)
(* Properties of the lateral controller, checked under SpecLat.            *)
(***************************************************************************)
Negative(x) == ~x.nan /\ x.v < 0
NonNegative(x) == ~x.nan /\ x.v >= 0

\* C18: the bearing error a lateral step pushes is negative exactly when the
\* z-component of cross(heading vector, vector to the target) is negative
\* and non-negative otherwise, and with K_P > 0 and K_I = K_D = 0 the
\* steering returned has the sign of that error
C18_SignConvention ==
    (call.op = "run_step" /\ ret.kind = "value") =>
        LET e == lat.lat_error[Len(lat.lat_error)]
            right == CrossNegative(call.loc[3], call.waypoint[1] - call.loc[1],
                                   call.waypoint[2] - call.loc[2])
        IN  /\ right => Negative(e)
            /\ ~right => NonNegative(e)
            /\ (lat.K_P > 0 /\ lat.K_I = 0 /\ lat.K_D = 0 /\ NonNegative(e)) =>
                  NonNegative(ret.value) /\ (e.v > 0 => ret.value.v > 0)
            /\ (lat.K_P > 0 /\ lat.K_I = 0 /\ lat.K_D = 0 /\ Negative(e)) =>
                  Negative(ret.value)

====
